---- MODULE Spec2Model ----
(***************************************************************************)
(* Workflow and claim-queue engine of practo-cms-be.                       *)
(*                                                                         *)
(* One reviewable item (a Script or a Video, created in DRAFT) and the     *)
(* requests running the WorkflowService operations on it.  A method is     *)
(* split at its awaits: the findUnique read with the checks that follow    *)
(* it, then each store write (a prisma.$transaction commits or rolls back  *)
(* as one step; the claim and release methods issue two separate writes).  *)
(* A request either runs from its read to its return with no other request *)
(* scheduled in between, or is suspended at an await while others run.     *)
(***************************************************************************)
EXTENDS Integers, Sequences, FiniteSets, Bags, TLC

NULL == "null"

\* ------------------------------------------------------------------------
\* Bounds of the model
\* ------------------------------------------------------------------------
\* requests suspended at an await while other requests run
MaxSuspended == 1

\* ------------------------------------------------------------------------
\* Enumerations (generated/prisma)
\* ------------------------------------------------------------------------
ScriptStatus ==
  {"DRAFT", "MEDICAL_REVIEW", "BRAND_REVIEW", "DOCTOR_REVIEW", "APPROVED",
   "LOCKED", "REJECTED"}

VideoStatus ==
  {"DRAFT", "BRAND_REVIEW", "MEDICAL_REVIEW", "DOCTOR_REVIEW", "APPROVED",
   "LOCKED", "PUBLISHED", "ARCHIVED", "REJECTED"}

UserRole ==
  {"SUPER_ADMIN", "MEDICAL_REVIEWER", "BRAND_REVIEWER", "DOCTOR_CREATOR",
   "AGENCY_POC", "CONTENT_APPROVER", "PUBLISHER", "VIEWER"}

ScriptAction == {"SUBMIT", "APPROVE", "REJECT", "LOCK", "UNLOCK"}

VideoAction ==
  {"SUBMIT", "APPROVE", "REJECT", "LOCK", "PUBLISH", "UNLOCK", "ARCHIVE"}

Kinds == {"SCRIPT", "VIDEO"}

StatusOf(k) == IF k = "SCRIPT" THEN ScriptStatus ELSE VideoStatus

ActionOf(k) == IF k = "SCRIPT" THEN ScriptAction ELSE VideoAction

\* ------------------------------------------------------------------------
\* Transition tables (config/constants.ts)
\* ------------------------------------------------------------------------
Rule(next, roles) == [nextState |-> next, requiredRoles |-> roles]

NoRules == [a \in {} |-> Rule(NULL, <<>>)]

SCRIPT_TRANSITIONS ==
  [s \in ScriptStatus |->
    CASE s = "DRAFT" ->
           ("SUBMIT" :> Rule("MEDICAL_REVIEW", <<"AGENCY_POC">>))
      [] s = "MEDICAL_REVIEW" ->
           ("APPROVE" :> Rule("BRAND_REVIEW", <<"MEDICAL_REVIEWER", "SUPER_ADMIN">>))
           @@ ("REJECT" :> Rule("DRAFT", <<"MEDICAL_REVIEWER", "SUPER_ADMIN">>))
      [] s = "BRAND_REVIEW" ->
           ("APPROVE" :> Rule("DOCTOR_REVIEW", <<"BRAND_REVIEWER", "SUPER_ADMIN">>))
           @@ ("REJECT" :> Rule("MEDICAL_REVIEW", <<"BRAND_REVIEWER", "SUPER_ADMIN">>))
      [] s = "DOCTOR_REVIEW" ->
           ("APPROVE" :> Rule("APPROVED", <<"DOCTOR_CREATOR", "SUPER_ADMIN">>))
           @@ ("REJECT" :> Rule("BRAND_REVIEW", <<"DOCTOR_CREATOR", "SUPER_ADMIN">>))
      [] s = "APPROVED" ->
           ("LOCK" :> Rule("LOCKED", <<"CONTENT_APPROVER", "SUPER_ADMIN">>))
      [] s = "LOCKED" ->
           ("UNLOCK" :> Rule("APPROVED", <<"SUPER_ADMIN">>))
      [] s = "REJECTED" ->
           ("SUBMIT" :> Rule("MEDICAL_REVIEW", <<"AGENCY_POC">>))]

VIDEO_TRANSITIONS ==
  [s \in VideoStatus |->
    CASE s = "DRAFT" ->
           ("SUBMIT" :> Rule("BRAND_REVIEW", <<"AGENCY_POC">>))
      [] s = "BRAND_REVIEW" ->
           ("APPROVE" :> Rule("MEDICAL_REVIEW", <<"BRAND_REVIEWER", "SUPER_ADMIN">>))
           @@ ("REJECT" :> Rule("DRAFT", <<"BRAND_REVIEWER", "SUPER_ADMIN">>))
      [] s = "MEDICAL_REVIEW" ->
           ("APPROVE" :> Rule("DOCTOR_REVIEW", <<"MEDICAL_REVIEWER", "SUPER_ADMIN">>))
           @@ ("REJECT" :> Rule("BRAND_REVIEW", <<"MEDICAL_REVIEWER", "SUPER_ADMIN">>))
      [] s = "DOCTOR_REVIEW" ->
           ("APPROVE" :> Rule("APPROVED", <<"DOCTOR_CREATOR", "SUPER_ADMIN">>))
           @@ ("REJECT" :> Rule("MEDICAL_REVIEW", <<"DOCTOR_CREATOR", "SUPER_ADMIN">>))
      [] s = "APPROVED" ->
           ("LOCK" :> Rule("LOCKED", <<"CONTENT_APPROVER", "SUPER_ADMIN">>))
      [] s = "LOCKED" ->
           ("PUBLISH" :> Rule("PUBLISHED", <<"PUBLISHER", "SUPER_ADMIN">>))
           @@ ("UNLOCK" :> Rule("APPROVED", <<"SUPER_ADMIN">>))
      [] s = "PUBLISHED" ->
           ("ARCHIVE" :> Rule("ARCHIVED", <<"SUPER_ADMIN", "CONTENT_APPROVER">>))
      [] s = "ARCHIVED" -> NoRules
      [] s = "REJECTED" ->
           ("SUBMIT" :> Rule("BRAND_REVIEW", <<"AGENCY_POC">>))]

LOCK_PERMISSIONS ==
  [CAN_LOCK_SCRIPT |-> <<"CONTENT_APPROVER", "SUPER_ADMIN">>,
   CAN_LOCK_VIDEO  |-> <<"CONTENT_APPROVER", "SUPER_ADMIN">>,
   CAN_UNLOCK      |-> <<"SUPER_ADMIN">>]

SCRIPT_STAGE_ORDER ==
  <<"DRAFT", "MEDICAL_REVIEW", "BRAND_REVIEW", "DOCTOR_REVIEW", "APPROVED",
    "LOCKED">>

VIDEO_STAGE_ORDER ==
  <<"DRAFT", "BRAND_REVIEW", "MEDICAL_REVIEW", "DOCTOR_REVIEW", "APPROVED",
    "LOCKED", "PUBLISHED">>

\* Array.prototype.includes
Includes(seq, x) == \E i \in 1..Len(seq) : seq[i] = x

\* Array.prototype.indexOf, 1-based, 0 when absent
IndexOf(seq, x) ==
  IF Includes(seq, x) THEN CHOOSE i \in 1..Len(seq) : seq[i] = x ELSE 0

\* ------------------------------------------------------------------------
\* Transition validator (config/constants.ts)
\* The error strings are kept as records holding the template and the
\* values interpolated into it.
\* ------------------------------------------------------------------------
Valid(next) == [valid |-> TRUE, nextState |-> next, error |-> [msg |-> "none"]]

Invalid(err) == [valid |-> FALSE, nextState |-> NULL, error |-> err]

ErrNoTransitions(status) ==
  [msg |-> "No transitions defined for state", status |-> status]

ErrActionNotAllowed(action, status) ==
  [msg |-> "Action not allowed from state", action |-> action,
   status |-> status]

ErrRoleCannotPerform(role, action, status, required) ==
  [msg |-> "Role cannot perform action. Required", role |-> role,
   action |-> action, status |-> status, required |-> required]

\* a variant of isValidTransition that looks at the role before it looks
\* for the action in the rules of the state
isValidTransitionRoleFirst(table, currentStatus, action, userRole) ==
  IF currentStatus \notin DOMAIN table
    THEN Invalid(ErrNoTransitions(currentStatus))
  ELSE IF \/ action \notin DOMAIN table[currentStatus]
          \/ ~Includes(table[currentStatus][action].requiredRoles, userRole)
    THEN Invalid(ErrRoleCannotPerform(userRole, action, currentStatus, <<>>))
  ELSE Valid(table[currentStatus][action].nextState)

\* a variant of isValidTransition that accepts every role
isValidTransitionAnyRole(table, currentStatus, action, userRole) ==
  IF currentStatus \notin DOMAIN table
    THEN Invalid(ErrNoTransitions(currentStatus))
  ELSE IF action \notin DOMAIN table[currentStatus]
    THEN Invalid(ErrActionNotAllowed(action, currentStatus))
  ELSE Valid(table[currentStatus][action].nextState)

isValidTransition(table, currentStatus, action, userRole) ==
  IF currentStatus \notin DOMAIN table
    THEN Invalid(ErrNoTransitions(currentStatus))
  ELSE IF action \notin DOMAIN table[currentStatus]
    THEN Invalid(ErrActionNotAllowed(action, currentStatus))
  ELSE IF ~Includes(table[currentStatus][action].requiredRoles, userRole)
    THEN Invalid(ErrRoleCannotPerform(userRole, action, currentStatus,
                   table[currentStatus][action].requiredRoles))
  ELSE Valid(table[currentStatus][action].nextState)

isValidScriptTransition(currentStatus, action, userRole) ==
  isValidTransition(SCRIPT_TRANSITIONS, currentStatus, action, userRole)

isValidVideoTransition(currentStatus, action, userRole) ==
  isValidTransition(VIDEO_TRANSITIONS, currentStatus, action, userRole)

\* Helper: roles that can review at a stage (WorkflowService, private)
getRolesForScriptStage(status) ==
  CASE status = "MEDICAL_REVIEW" -> <<"MEDICAL_REVIEWER", "SUPER_ADMIN">>
    [] status = "BRAND_REVIEW" -> <<"BRAND_REVIEWER", "SUPER_ADMIN">>
    [] status = "DOCTOR_REVIEW" -> <<"DOCTOR_CREATOR", "SUPER_ADMIN">>
    [] status = "APPROVED" -> <<"CONTENT_APPROVER", "SUPER_ADMIN">>
    [] OTHER -> <<"SUPER_ADMIN">>

\* a lookup without the case of LOCKED
getRolesForVideoStageNoLocked(status) ==
  CASE status = "BRAND_REVIEW" -> <<"BRAND_REVIEWER", "SUPER_ADMIN">>
    [] status = "MEDICAL_REVIEW" -> <<"MEDICAL_REVIEWER", "SUPER_ADMIN">>
    [] status = "DOCTOR_REVIEW" -> <<"DOCTOR_CREATOR", "SUPER_ADMIN">>
    [] status = "APPROVED" -> <<"CONTENT_APPROVER", "SUPER_ADMIN">>
    [] OTHER -> <<"SUPER_ADMIN">>

getRolesForVideoStage(status) ==
  CASE status = "BRAND_REVIEW" -> <<"BRAND_REVIEWER", "SUPER_ADMIN">>
    [] status = "MEDICAL_REVIEW" -> <<"MEDICAL_REVIEWER", "SUPER_ADMIN">>
    [] status = "DOCTOR_REVIEW" -> <<"DOCTOR_CREATOR", "SUPER_ADMIN">>
    [] status = "APPROVED" -> <<"CONTENT_APPROVER", "SUPER_ADMIN">>
    [] status = "LOCKED" -> <<"PUBLISHER", "SUPER_ADMIN">>
    [] OTHER -> <<"SUPER_ADMIN">>

\* ------------------------------------------------------------------------
\* Users of the model: the authenticated callers (id and role of the token)
\* ------------------------------------------------------------------------
users ==
  ("agency1" :> "AGENCY_POC") @@ ("medical1" :> "MEDICAL_REVIEWER")
  @@ ("medical2" :> "MEDICAL_REVIEWER") @@ ("brand1" :> "BRAND_REVIEWER")
  @@ ("doctor1" :> "DOCTOR_CREATOR") @@ ("approver1" :> "CONTENT_APPROVER")
  @@ ("publisher1" :> "PUBLISHER") @@ ("admin1" :> "SUPER_ADMIN")

UserIds == DOMAIN users

\* values of new Date()
Times == {"t1"}

\* the timestamps in increasing order, created_at of the item first
TimeOrder == <<"t0", "t1">>

\* values of the comments of a request: absent, empty, or a text
Comments == {NULL, "", "fix dosage"}

\* JavaScript truthiness of a string | undefined
Truthy(v) == v # NULL /\ v # ""

\* a rejectScript / rejectVideo that refuses only absent comments
RejectRefusedAbsentOnly(comments) ==
  comments = NULL

\* rejectScript / rejectVideo: if (!comments) throw
RejectRefused(comments) ==
  ~Truthy(comments)

\* context.comments as the callers of transitionScript / transitionVideo
\* build it: submit, publish and archive pass none, approveScript passes
\* them when truthy, approveVideo as they are, and a REJECT reaches the
\* engine only through rejectScript / rejectVideo
ContextComments(k, action) ==
  CASE action = "REJECT" -> {c \in Comments : ~RejectRefused(c)}
    [] action = "APPROVE" /\ k = "SCRIPT" ->
         {IF Truthy(c) THEN c ELSE NULL : c \in Comments}
    [] action = "APPROVE" /\ k = "VIDEO" -> Comments
    [] OTHER -> {NULL}


\* ------------------------------------------------------------------------
\* State
\* ------------------------------------------------------------------------
\* script_reviews / video_reviews and audit_logs are insert-only and no
\* operation of the engine reads them: each is kept as the rows the latest
\* step inserted (the empty sequence after a step that inserted none).
\* In the same way response is what the latest step returned to its caller.
VARIABLES
  item,         \* the row of the scripts / videos table
  analytics,    \* video_analytics: number of rows of the video
  calls,        \* the suspended requests: position and locals of each
  reviews,      \* script_reviews / video_reviews: the rows just inserted
  auditLog,     \* audit_logs: the rows just inserted
  response,     \* the result just returned, with the request it answers
  topic,        \* topics: the status of the parent topic of the item
  notifications, \* what the latest step handed to NotificationService
  approved      \* history, recorded under SpecHistory alone (-1 under
                \* Spec): the number of review stages of the kind, in its
                \* order, at which an APPROVE has committed on the stored
                \* stage

vars ==
  <<item, analytics, calls, reviews, auditLog, response, topic, notifications,
    approved>>

NewItem(kind) ==
  [id |-> "id1", kind |-> kind, status |-> "DRAFT", createdAt |-> "t0",
   assignedReviewerId |-> NULL, assignedAt |-> NULL,
   lockedById |-> NULL, lockedAt |-> NULL,
   publishedById |-> NULL, publishedAt |-> NULL, deepLink |-> <<>>,
   content |-> "c0"]

\* TransitionContext and the locals a method keeps across its awaits
NewCall(op, action, userId) ==
  [op |-> op, action |-> action, userId |-> userId, pc |-> "load",
   currentState |-> NULL, nextState |-> NULL, previousReviewerId |-> NULL]

NoError == [msg |-> "none"]

Success == [success |-> TRUE, error |-> NoError]

Failure(err) == [success |-> FALSE, error |-> err]

\* error.message of a rejected store call
StoreError == [msg |-> "store error"]

Init ==
  /\ item \in {NewItem(k) : k \in Kinds}
  /\ analytics = 0
  /\ calls = EmptyBag
  /\ reviews = <<>>
  /\ auditLog = <<>>
  /\ response = <<>>
  /\ topic = "IN_PROGRESS"
  /\ notifications = <<>>
  /\ approved = -1

\* the same rows, with the history of the approvals recorded from the start
InitHistory ==
  /\ item \in {NewItem(k) : k \in Kinds}
  /\ analytics = 0
  /\ calls = EmptyBag
  /\ reviews = <<>>
  /\ auditLog = <<>>
  /\ response = <<>>
  /\ topic = "IN_PROGRESS"
  /\ notifications = <<>>
  /\ approved = 0

Pending == BagToSet(calls)

\* ------------------------------------------------------------------------
\* Steps of a request.  A step maps the rows it reads and the locals of the
\* request to the rows it leaves, the rows it inserts, and either the
\* result it returns (done) or the locals at its next await.
\* ------------------------------------------------------------------------
Done(row, n, rv, al, c, res) ==
  [item |-> row, analytics |-> n, reviews |-> rv, auditLog |-> al,
   topic |-> topic, notifications |-> <<>>,
   call |-> c, done |-> TRUE, result |-> res]

Await(row, n, c, pc) ==
  [item |-> row, analytics |-> n, reviews |-> <<>>, auditLog |-> <<>>,
   topic |-> topic, notifications |-> <<>>,
   call |-> [c EXCEPT !.pc = pc], done |-> FALSE, result |-> Success]

Writes(o) ==
  \/ o.item # item
  \/ o.analytics # analytics
  \/ o.reviews # <<>>
  \/ o.auditLog # <<>>
  \/ o.topic # topic
  \/ o.notifications # <<>>

\* the review stages of a kind, in its order
ReviewOrder(k) ==
  SubSeq(IF k = "SCRIPT" THEN SCRIPT_STAGE_ORDER ELSE VIDEO_STAGE_ORDER, 2, 4)

\* the step commits an APPROVE that was validated against the stage the row
\* has now, and that stage is the next review stage still to be approved
ApprovesNextStage(o) ==
  /\ approved >= 0
  /\ o.done
  /\ o.result.success
  /\ o.call.op = "transition"
  /\ o.call.action = "APPROVE"
  /\ o.call.currentState = item.status
  /\ approved < Len(ReviewOrder(item.kind))
  /\ item.status = ReviewOrder(item.kind)[approved + 1]

Commit(o) ==
  /\ approved' = IF ApprovesNextStage(o) THEN approved + 1 ELSE approved
  /\ item' = o.item
  /\ analytics' = o.analytics
  /\ reviews' = o.reviews
  /\ auditLog' = o.auditLog
  /\ topic' = o.topic
  /\ notifications' = o.notifications

Respond(o) ==
  response' = IF o.done THEN <<[call |-> o.call, result |-> o.result]>>
                        ELSE <<>>

\* The controller sends the result it was handed, before the step of any
\* other request is scheduled.
sendResponse ==
  /\ response # <<>>
  /\ response' = <<>>
  /\ reviews' = <<>>
  /\ auditLog' = <<>>
  /\ notifications' = <<>>
  /\ UNCHANGED <<item, analytics, calls, topic, approved>>

\* a step of a request on an item of kind k can be scheduled
Ready(k) == response = <<>> /\ item.kind = k

\* the request is suspended at the await that follows its checks
Suspend(o) ==
  /\ ~o.done
  /\ BagCardinality(calls) < MaxSuspended
  /\ calls' = calls (+) SetToBag({o.call})
  /\ Commit(o)
  /\ Respond(o)

\* the suspended request c takes its next step
Resume(c, o) ==
  /\ calls' = (calls (-) SetToBag({c}))
                (+) (IF o.done THEN EmptyBag ELSE SetToBag({o.call}))
  /\ Commit(o)
  /\ Respond(o)

\* A request runs from its read to its return.  One that writes nothing has
\* read the rows once: it sees the same rows whether or not another request
\* is suspended, and is taken when none is.
Through(o) ==
  /\ o.done
  /\ Writes(o) \/ calls = EmptyBag
  /\ UNCHANGED calls
  /\ Commit(o)
  /\ Respond(o)

AuditEntry(userId, action, entityType, old, new) ==
  [userId |-> userId, action |-> action, entityType |-> entityType,
   oldValue |-> old, newValue |-> new]

\* a rejected write of a $transaction rolls all of it back
Rollback(row, n, c) == Done(row, n, <<>>, <<>>, c, Failure(StoreError))

\* ------------------------------------------------------------------------
\* transitionScript / transitionVideo
\* ------------------------------------------------------------------------
\* 1. load the row, 2. validate the transition against the status read
TransitionLoad(row, n, u, a, validation) ==
  LET call == [NewCall("transition", a, u) EXCEPT !.currentState = row.status] IN
  IF ~validation.valid
    THEN Done(row, n, <<>>, <<>>, call, Failure(validation.error))
    ELSE Await(row, n, [call EXCEPT !.nextState = validation.nextState], "tx")

ScriptLoad(row, n, u, a) ==
  TransitionLoad(row, n, u, a,
                 isValidScriptTransition(row.status, a, users[u]))

VideoLoad(row, n, u, a) ==
  TransitionLoad(row, n, u, a,
                 isValidVideoTransition(row.status, a, users[u]))

\* an update that stores the decision of a REJECT as the stage
ScriptUpdateDataRejected(row, c) ==
  [row EXCEPT !.status = IF c.action = "REJECT" THEN "REJECTED"
                                                ELSE c.nextState,
              !.assignedReviewerId = NULL, !.assignedAt = NULL]

\* the row written by tx.script.update
ScriptUpdateData(row, c) ==
  [row EXCEPT !.status = c.nextState,
              !.assignedReviewerId = NULL, !.assignedAt = NULL]

\* a PUBLISH that stamps the publisher and the time but stores no deep link
VideoUpdateDataNoDeepLink(row, c, now) ==
  IF c.action = "PUBLISH"
    THEN [row EXCEPT !.status = c.nextState,
                     !.assignedReviewerId = NULL, !.assignedAt = NULL,
                     !.publishedAt = now, !.publishedById = c.userId]
    ELSE [row EXCEPT !.status = c.nextState,
                     !.assignedReviewerId = NULL, !.assignedAt = NULL]

\* the row written by tx.video.update
VideoUpdateData(row, c, now) ==
  IF c.action = "PUBLISH"
    THEN [row EXCEPT !.status = c.nextState,
                     !.assignedReviewerId = NULL, !.assignedAt = NULL,
                     !.publishedAt = now, !.publishedById = c.userId,
                     !.deepLink = <<"practo://hub/video/", row.id>>]
    ELSE [row EXCEPT !.status = c.nextState,
                     !.assignedReviewerId = NULL, !.assignedAt = NULL]

ReviewRow(c, comments) ==
  [reviewerId |-> c.userId, reviewerType |-> users[c.userId],
   decision |-> IF c.action = "APPROVE" THEN "APPROVED" ELSE "REJECTED",
   comments |-> comments]

\* a transaction that records a review row for every action
ReviewRowsEveryAction(c, comments) == <<ReviewRow(c, comments)>>

\* the rows of tx.scriptReview.create / tx.videoReview.create
ReviewRows(c, comments) ==
  IF c.action \in {"APPROVE", "REJECT"} THEN <<ReviewRow(c, comments)>>
                                        ELSE <<>>

TransitionAudit(k, c) ==
  AuditEntry(c.userId, <<c.action, k>>, k,
             [status |-> c.currentState], [status |-> c.nextState])

\* the writes of the $transaction of a transition
TxWrites(k, action) ==
  {"update", "audit"}
  \cup (IF action \in {"APPROVE", "REJECT"} THEN {"review"} ELSE {})
  \cup (IF k = "VIDEO" /\ action = "PUBLISH" THEN {"analytics"} ELSE {})

TxFaults(k, action) == {"none"} \cup TxWrites(k, action)

\* a variant of ScriptTx whose audit insert, when rejected, leaves the
\* update and the review row in place
ScriptTxPartial(row, n, c, comments, fault) ==
  IF fault = "none"
    THEN Done(ScriptUpdateData(row, c), n, ReviewRows(c, comments),
              <<TransitionAudit("SCRIPT", c)>>, c, Success)
  ELSE IF fault = "audit"
    THEN Done(ScriptUpdateData(row, c), n, ReviewRows(c, comments), <<>>,
              c, Failure(StoreError))
  ELSE Rollback(row, n, c)

\* 3. execute the transition in a transaction: every write, or (one of them
\* rejected by the store) none
ScriptTx(row, n, c, comments, fault) ==
  IF fault = "none"
    THEN Done(ScriptUpdateData(row, c), n, ReviewRows(c, comments),
              <<TransitionAudit("SCRIPT", c)>>, c, Success)
    ELSE Rollback(row, n, c)

\* a PUBLISH that inserts an analytics row instead of upserting it
VideoTxInsertAnalytics(row, n, c, comments, now, fault) ==
  IF fault = "none"
    THEN Done(VideoUpdateData(row, c, now),
              IF c.action = "PUBLISH" THEN n + 1 ELSE n,
              ReviewRows(c, comments), <<TransitionAudit("VIDEO", c)>>,
              c, Success)
    ELSE Rollback(row, n, c)

VideoTx(row, n, c, comments, now, fault) ==
  IF fault = "none"
    THEN Done(VideoUpdateData(row, c, now),
              IF c.action = "PUBLISH" /\ n = 0 THEN 1 ELSE n,
              ReviewRows(c, comments), <<TransitionAudit("VIDEO", c)>>,
              c, Success)
    ELSE Rollback(row, n, c)

\* the request stops at the await of prisma.$transaction
transitionScriptLoad ==
  /\ Ready("SCRIPT")
  /\ \E u \in UserIds, a \in ScriptAction :
       /\ Suspend(ScriptLoad(item, analytics, u, a))

transitionScriptTx ==
  /\ Ready("SCRIPT")
  /\ \E c \in Pending :
     \E comments \in ContextComments("SCRIPT", c.action),
        fault \in TxFaults("SCRIPT", c.action) :
       /\ c.op = "transition"
       /\ c.pc = "tx"
       /\ Resume(c, ScriptTx(item, analytics, c, comments, fault))

transitionScript ==
  /\ Ready("SCRIPT")
  /\ \E u \in UserIds, a \in ScriptAction :
       LET o == ScriptLoad(item, analytics, u, a) IN
       /\ IF o.done
            THEN Through(o)
            ELSE \E comments \in ContextComments("SCRIPT", a),
                    fault \in TxFaults("SCRIPT", a) :
                   Through(ScriptTx(o.item, o.analytics, o.call, comments, fault))

transitionVideoLoad ==
  /\ Ready("VIDEO")
  /\ \E u \in UserIds, a \in VideoAction :
       /\ Suspend(VideoLoad(item, analytics, u, a))

transitionVideoTx ==
  /\ Ready("VIDEO")
  /\ \E c \in Pending, now \in Times :
     \E comments \in ContextComments("VIDEO", c.action),
        fault \in TxFaults("VIDEO", c.action) :
       /\ c.op = "transition"
       /\ c.pc = "tx"
       /\ Resume(c, VideoTx(item, analytics, c, comments, now, fault))

transitionVideo ==
  /\ Ready("VIDEO")
  /\ \E u \in UserIds, a \in VideoAction :
       LET o == VideoLoad(item, analytics, u, a) IN
       /\ IF o.done
            THEN Through(o)
            ELSE \E comments \in ContextComments("VIDEO", a), now \in Times,
                    fault \in TxFaults("VIDEO", a) :
                   Through(VideoTx(o.item, o.analytics, o.call, comments, now,
                                   fault))

\* ------------------------------------------------------------------------
\* rejectScript / rejectVideo called without comments: the wrapper throws
\* before it calls the engine.  (Called with comments it goes on as
\* transitionScript / transitionVideo with the action REJECT, above.)
\* ------------------------------------------------------------------------
ErrCommentsRequired == [msg |-> "Rejection comments are required"]

RejectWithout(row, n, u) ==
  Done(row, n, <<>>, <<>>, NewCall("reject", "REJECT", u),
       Failure(ErrCommentsRequired))

rejectScript ==
  /\ Ready("SCRIPT")
  /\ \E u \in UserIds, comments \in Comments :
       /\ RejectRefused(comments)
       /\ Through(RejectWithout(item, analytics, u))

rejectVideo ==
  /\ Ready("VIDEO")
  /\ \E u \in UserIds, comments \in Comments :
       /\ RejectRefused(comments)
       /\ Through(RejectWithout(item, analytics, u))

\* ------------------------------------------------------------------------
\* getQueueForRole and its two callers
\* ------------------------------------------------------------------------
\* the rows of the scripts table ('script') or of the videos table ('video')
Rows(contentType) ==
  IF (contentType = "script" /\ item.kind = "SCRIPT")
       \/ (contentType = "video" /\ item.kind = "VIDEO")
    THEN {item} ELSE {}

Range(seq) == {seq[i] : i \in 1..Len(seq)}

\* findMany({ orderBy: { createdAt: 'asc' } })
OrderByCreatedAtAsc(rows) ==
  CHOOSE q \in [1..Cardinality(rows) -> rows] :
    /\ Range(q) = rows
    /\ \A i, j \in 1..Len(q) :
         i < j => IndexOf(TimeOrder, q[i].createdAt)
                    <= IndexOf(TimeOrder, q[j].createdAt)

\* findMany({ orderBy: { assignedAt: 'desc' } })
OrderByAssignedAtDesc(rows) ==
  CHOOSE q \in [1..Cardinality(rows) -> rows] :
    /\ Range(q) = rows
    /\ \A i, j \in 1..Len(q) :
         i < j => IndexOf(TimeOrder, q[i].assignedAt)
                    >= IndexOf(TimeOrder, q[j].assignedAt)

\* the switch on userRole of each content type; the default returns empty
\* lists, as the empty set of statuses does
QueueStatuses(userRole, contentType) ==
  IF contentType = "script"
    THEN CASE userRole = "MEDICAL_REVIEWER" -> {"MEDICAL_REVIEW"}
           [] userRole = "BRAND_REVIEWER" -> {"BRAND_REVIEW"}
           [] userRole = "DOCTOR_CREATOR" -> {"DOCTOR_REVIEW"}
           [] userRole = "CONTENT_APPROVER" -> {"APPROVED"}
           [] userRole = "SUPER_ADMIN" ->
                {"MEDICAL_REVIEW", "BRAND_REVIEW", "DOCTOR_REVIEW", "APPROVED",
                 "LOCKED"}
           [] OTHER -> {}
    ELSE CASE userRole = "BRAND_REVIEWER" -> {"BRAND_REVIEW"}
           [] userRole = "MEDICAL_REVIEWER" -> {"MEDICAL_REVIEW"}
           [] userRole = "DOCTOR_CREATOR" -> {"DOCTOR_REVIEW"}
           [] userRole = "CONTENT_APPROVER" -> {"APPROVED"}
           [] userRole = "PUBLISHER" -> {"LOCKED"}
           [] userRole = "SUPER_ADMIN" ->
                {"BRAND_REVIEW", "MEDICAL_REVIEW", "DOCTOR_REVIEW", "APPROVED",
                 "LOCKED"}
           [] OTHER -> {}

\* userId is NULL when the caller passes none
getQueueForRole(userRole, contentType, userId) ==
  LET statuses == QueueStatuses(userRole, contentType)
      available ==
        OrderByCreatedAtAsc({r \in Rows(contentType) :
                               /\ r.status \in statuses
                               /\ r.assignedReviewerId = NULL})
      myReviews ==
        IF userId # NULL
          THEN OrderByAssignedAtDesc({r \in Rows(contentType) :
                                        /\ r.status \in statuses
                                        /\ r.assignedReviewerId = userId})
          ELSE <<>>
  IN [available |-> available, myReviews |-> myReviews,
      total |-> Len(available) + Len(myReviews)]

QueueResult(queue) == [success |-> TRUE, error |-> NoError, queue |-> queue]

\* scripts.service getScriptQueue(userRole, userId)
getScriptQueue ==
  /\ Ready("SCRIPT")
  /\ \E u \in UserIds :
       Through(Done(item, analytics, <<>>, <<>>, NewCall("getQueue", NULL, u),
                    QueueResult(getQueueForRole(users[u], "script", u))))

\* hub.routes getVideoQueue(userRole)
getVideoQueue ==
  /\ Ready("VIDEO")
  /\ \E u \in UserIds :
       Through(Done(item, analytics, <<>>, <<>>, NewCall("getQueue", NULL, u),
                    QueueResult(getQueueForRole(users[u], "video", NULL))))

\* ------------------------------------------------------------------------
\* publishVideo: the PUBLISH transition of the video, then the update of the
\* parent topic, a write of its own after the transaction has committed
\* ------------------------------------------------------------------------
TopicStatus ==
  {"ASSIGNED", "DOCTOR_INPUT_PENDING", "DOCTOR_INPUT_RECEIVED", "IN_PROGRESS",
   "COMPLETED"}

PublishLoad(row, n, u) ==
  LET o == VideoLoad(row, n, u, "PUBLISH") IN
  [o EXCEPT !.call.op = "publish"]

PublishFaults == TxFaults("VIDEO", "PUBLISH") \cup {"topic"}

\* WorkflowService.transitionVideo(videoId, 'PUBLISH', {userId, userRole}):
\* a failure is thrown to the controller, a success goes on to the topic
PublishTx(row, n, c, now, fault) ==
  LET o == VideoTx(row, n, c, NULL, now,
                   IF fault = "topic" THEN "none" ELSE fault) IN
  IF o.result.success
    THEN [o EXCEPT !.done = FALSE, !.call.pc = "topic"]
    ELSE o

\* prisma.topic.update({ data: { status: COMPLETED } })
PublishTopic(row, n, c, fault) ==
  IF fault = "topic"
    THEN Done(row, n, <<>>, <<>>, c, Failure(StoreError))
    ELSE [Done(row, n, <<>>, <<>>, c, Success) EXCEPT !.topic = "COMPLETED"]

\* transaction, then topic
PublishWrites(row, n, c, now, fault) ==
  LET o == PublishTx(row, n, c, now, fault) IN
  IF o.done
    THEN o
    ELSE [PublishTopic(o.item, o.analytics, o.call, fault)
            EXCEPT !.auditLog = o.auditLog]

publishVideoLoad ==
  /\ Ready("VIDEO")
  /\ \E u \in UserIds :
       /\ Suspend(PublishLoad(item, analytics, u))

publishVideoTx ==
  /\ Ready("VIDEO")
  /\ \E c \in Pending, now \in Times :
     \E fault \in TxFaults("VIDEO", "PUBLISH") :
       /\ c.op = "publish"
       /\ c.pc = "tx"
       /\ Resume(c, PublishTx(item, analytics, c, now, fault))

publishVideoTopic ==
  /\ Ready("VIDEO")
  /\ \E c \in Pending, fault \in {"none", "topic"} :
       /\ c.op = "publish"
       /\ c.pc = "topic"
       /\ Resume(c, PublishTopic(item, analytics, c, fault))

publishVideo ==
  /\ Ready("VIDEO")
  /\ \E u \in UserIds :
       LET o == PublishLoad(item, analytics, u) IN
       /\ IF o.done
            THEN Through(o)
            ELSE \E now \in Times, fault \in PublishFaults :
                   Through(PublishWrites(o.item, o.analytics, o.call, now,
                                         fault))

\* ------------------------------------------------------------------------
\* NotificationService.enqueueEvent and its caller, createTopic.  An
\* exception is the field thrown of the outcome of a step.
\* ------------------------------------------------------------------------
NotificationEventType ==
  {"TOPIC_ASSIGNED", "SCRIPT_SUBMITTED", "SCRIPT_APPROVED", "SCRIPT_REJECTED",
   "SCRIPT_LOCKED", "VIDEO_SUBMITTED", "VIDEO_APPROVED", "VIDEO_REJECTED",
   "VIDEO_LOCKED", "VIDEO_PUBLISHED"}

\* what can go wrong in enqueueEvent: the import of the prisma client, a
\* query of the builder, no recipient found, the add to the Bull queue
NotifyFaults == {"none", "import", "query", "norecipient", "add"}

\* buildNotificationJob: the import is outside the try of the builder, its
\* queries inside (caught: null); null as well when nobody is to be told
buildNotificationJob(payload, recipients, fault) ==
  IF payload.eventType \notin NotificationEventType
    THEN [thrown |-> FALSE, job |-> <<>>]
  ELSE IF fault = "import"
    THEN [thrown |-> TRUE, job |-> <<>>]
  ELSE IF fault \in {"query", "norecipient"}
    THEN [thrown |-> FALSE, job |-> <<>>]
  ELSE [thrown |-> FALSE,
        job |-> <<[eventType |-> payload.eventType,
                   recipientIds |-> recipients]>>]

\* the body of the try of enqueueEvent
TryEnqueue(payload, recipients, fault) ==
  LET built == buildNotificationJob(payload, recipients, fault) IN
  IF built.thrown
    THEN [thrown |-> TRUE, queued |-> <<>>, log |-> "error"]
  ELSE IF built.job = <<>>
    THEN [thrown |-> FALSE, queued |-> <<>>, log |-> "warn"]
  ELSE IF fault = "add"
    THEN [thrown |-> TRUE, queued |-> <<>>, log |-> "error"]
  ELSE [thrown |-> FALSE, queued |-> built.job, log |-> "log"]

\* an enqueueEvent whose catch logs and throws again
enqueueEventRethrow(payload, recipients, fault) ==
  LET t == TryEnqueue(payload, recipients, fault) IN
  [eventType |-> payload.eventType, entityId |-> payload.entityId,
   entityType |-> payload.entityType, topicId |-> payload.topicId,
   actorUserId |-> payload.actorUserId,
   raised |-> t.thrown, queued |-> t.queued, log |-> t.log]

\* enqueueEvent: try { ... } catch { console.error }, never throws
enqueueEvent(payload, recipients, fault) ==
  LET t == TryEnqueue(payload, recipients, fault) IN
  [eventType |-> payload.eventType, entityId |-> payload.entityId,
   entityType |-> payload.entityType, topicId |-> payload.topicId,
   actorUserId |-> payload.actorUserId,
   raised |-> FALSE, queued |-> t.queued, log |-> t.log]

\* the roles with the permission create_topic
TopicCreators == {u \in UserIds : users[u] = "SUPER_ADMIN"}

NewTopic(createdById, assignedDoctorId) ==
  [id |-> "topic2", status |-> "ASSIGNED",
   assignedDoctorId |-> assignedDoctorId, createdById |-> createdById]

ErrNotDoctor == [msg |-> "Assigned user must be a Doctor Creator"]

TopicAssigned(t) ==
  [eventType |-> "TOPIC_ASSIGNED", entityId |-> t.id, entityType |-> "TOPIC",
   topicId |-> t.id, actorUserId |-> t.createdById]

\* check of the doctor, prisma.topic.create, then the event, not awaited
CreateTopic(row, n, u, d, fault) ==
  LET call == NewCall("createTopic", NULL, u)
      t == NewTopic(u, d)
  IN IF users[d] # "DOCTOR_CREATOR"
       THEN Done(row, n, <<>>, <<>>, call, Failure(ErrNotDoctor))
     ELSE IF fault = "create"
       THEN Done(row, n, <<>>, <<>>, call, Failure(StoreError))
     ELSE [Done(row, n, <<>>, <<>>, call,
                [success |-> TRUE, error |-> NoError, topic |-> t])
             EXCEPT !.notifications =
                      <<enqueueEvent(TopicAssigned(t), <<d>>, fault)>>]

\* createTopic touches no row of the item: it is taken when no request on
\* the item is suspended
createTopic ==
  /\ response = <<>>
  /\ calls = EmptyBag
  /\ \E u \in TopicCreators, d \in UserIds :
     \E fault \in {"create"} \cup NotifyFaults :
       Through(CreateTopic(item, analytics, u, d, fault))

\* ------------------------------------------------------------------------
\* updateScript / updateVideo: the content fields of the row (content,
\* summary, tags; title, description, ...) are one field of the model
\* ------------------------------------------------------------------------
\* the inputs of an update
Contents == {"c1", "c2"}

\* the roles with the permissions of the two PATCH routes
Uploaders == {u \in UserIds : users[u] = "AGENCY_POC"}

ErrOnlyDraft(k) == [msg |-> "Can only edit in DRAFT status", kind |-> k]

\* findUnique, then the check of the status read
UpdateLoad(row, n, u) ==
  LET call == [NewCall("update", NULL, u) EXCEPT !.currentState = row.status] IN
  IF row.status # "DRAFT"
    THEN Done(row, n, <<>>, <<>>, call, Failure(ErrOnlyDraft(row.kind)))
    ELSE Await(row, n, call, "update")

\* update({ where: { id }, data: input }): the content fields alone
UpdateData(row, input) ==
  [row EXCEPT !.content = input]

UpdateWrite(row, n, c, input, fault) ==
  IF fault = "update"
    THEN Done(row, n, <<>>, <<>>, c, Failure(StoreError))
    ELSE Done(UpdateData(row, input), n, <<>>, <<>>, c, Success)

UpdateFaults == {"none", "update"}

updateScriptLoad ==
  /\ Ready("SCRIPT")
  /\ \E u \in Uploaders :
       Suspend(UpdateLoad(item, analytics, u))

updateScriptWrite ==
  /\ Ready("SCRIPT")
  /\ \E c \in Pending, input \in Contents, fault \in UpdateFaults :
       /\ c.op = "update"
       /\ c.pc = "update"
       /\ Resume(c, UpdateWrite(item, analytics, c, input, fault))

updateScript ==
  /\ Ready("SCRIPT")
  /\ \E u \in Uploaders :
       LET o == UpdateLoad(item, analytics, u) IN
       /\ IF o.done
            THEN Through(o)
            ELSE \E input \in Contents, fault \in UpdateFaults :
                   Through(UpdateWrite(o.item, o.analytics, o.call, input,
                                       fault))

updateVideoLoad ==
  /\ Ready("VIDEO")
  /\ \E u \in Uploaders :
       Suspend(UpdateLoad(item, analytics, u))

updateVideoWrite ==
  /\ Ready("VIDEO")
  /\ \E c \in Pending, input \in Contents, fault \in UpdateFaults :
       /\ c.op = "update"
       /\ c.pc = "update"
       /\ Resume(c, UpdateWrite(item, analytics, c, input, fault))

updateVideo ==
  /\ Ready("VIDEO")
  /\ \E u \in Uploaders :
       LET o == UpdateLoad(item, analytics, u) IN
       /\ IF o.done
            THEN Through(o)
            ELSE \E input \in Contents, fault \in UpdateFaults :
                   Through(UpdateWrite(o.item, o.analytics, o.call, input,
                                       fault))

\* ------------------------------------------------------------------------
\* lockScript / lockVideo, unlockScript / unlockVideo
\* ------------------------------------------------------------------------
ErrOnlyRoles(op, k) == [msg |-> "Only these roles can", op |-> op, kind |-> k]

ErrWrongState(op, k, status) ==
  [msg |-> "Wrong state. Current", op |-> op, kind |-> k, status |-> status]

\* permission check, load, status check
LockLoad(row, n, u, permitted) ==
  LET call == NewCall("lock", NULL, u) IN
  IF ~Includes(permitted, users[u])
    THEN Done(row, n, <<>>, <<>>, call, Failure(ErrOnlyRoles("lock", row.kind)))
  ELSE IF row.status # "APPROVED"
    THEN Done(row, n, <<>>, <<>>, [call EXCEPT !.currentState = row.status],
              Failure(ErrWrongState("lock", row.kind, row.status)))
  ELSE Await(row, n, [call EXCEPT !.currentState = row.status], "tx")

\* the row written by the update of lockScript / lockVideo
LockUpdateData(row, userId, now) ==
  [row EXCEPT !.status = "LOCKED", !.lockedById = userId, !.lockedAt = now]

LockAudit(k, userId) ==
  AuditEntry(userId, <<"LOCK", k>>, k, [status |-> "APPROVED"],
             [status |-> "LOCKED", lockedById |-> userId])

\* the $transaction of lockScript / lockVideo
LockTx(row, n, c, now, fault) ==
  IF fault = "none"
    THEN Done(LockUpdateData(row, c.userId, now), n, <<>>,
              <<LockAudit(row.kind, c.userId)>>, c, Success)
    ELSE Rollback(row, n, c)

LockFaults == {"none", "update", "audit"}

lockScriptLoad ==
  /\ Ready("SCRIPT")
  /\ \E u \in UserIds :
       /\ Suspend(LockLoad(item, analytics, u, LOCK_PERMISSIONS.CAN_LOCK_SCRIPT))

lockScriptTx ==
  /\ Ready("SCRIPT")
  /\ \E c \in Pending, now \in Times, fault \in LockFaults :
       /\ c.op = "lock"
       /\ c.pc = "tx"
       /\ Resume(c, LockTx(item, analytics, c, now, fault))

lockScript ==
  /\ Ready("SCRIPT")
  /\ \E u \in UserIds :
       LET o == LockLoad(item, analytics, u, LOCK_PERMISSIONS.CAN_LOCK_SCRIPT) IN
       /\ IF o.done
            THEN Through(o)
            ELSE \E now \in Times, fault \in LockFaults :
                   Through(LockTx(o.item, o.analytics, o.call, now, fault))

lockVideoLoad ==
  /\ Ready("VIDEO")
  /\ \E u \in UserIds :
       /\ Suspend(LockLoad(item, analytics, u, LOCK_PERMISSIONS.CAN_LOCK_VIDEO))

lockVideoTx ==
  /\ Ready("VIDEO")
  /\ \E c \in Pending, now \in Times, fault \in LockFaults :
       /\ c.op = "lock"
       /\ c.pc = "tx"
       /\ Resume(c, LockTx(item, analytics, c, now, fault))

lockVideo ==
  /\ Ready("VIDEO")
  /\ \E u \in UserIds :
       LET o == LockLoad(item, analytics, u, LOCK_PERMISSIONS.CAN_LOCK_VIDEO) IN
       /\ IF o.done
            THEN Through(o)
            ELSE \E now \in Times, fault \in LockFaults :
                   Through(LockTx(o.item, o.analytics, o.call, now, fault))

\* an unlock open to the roles that may lock
UnlockLoadLockRoles(row, n, u) ==
  LET call == NewCall("unlock", NULL, u) IN
  IF ~Includes(LOCK_PERMISSIONS.CAN_LOCK_SCRIPT, users[u])
    THEN Done(row, n, <<>>, <<>>, call,
              Failure(ErrOnlyRoles("unlock", row.kind)))
  ELSE IF row.status # "LOCKED"
    THEN Done(row, n, <<>>, <<>>, [call EXCEPT !.currentState = row.status],
              Failure(ErrWrongState("unlock", row.kind, row.status)))
  ELSE Await(row, n, [call EXCEPT !.currentState = row.status], "tx")

UnlockLoad(row, n, u) ==
  LET call == NewCall("unlock", NULL, u) IN
  IF ~Includes(LOCK_PERMISSIONS.CAN_UNLOCK, users[u])
    THEN Done(row, n, <<>>, <<>>, call,
              Failure(ErrOnlyRoles("unlock", row.kind)))
  ELSE IF row.status # "LOCKED"
    THEN Done(row, n, <<>>, <<>>, [call EXCEPT !.currentState = row.status],
              Failure(ErrWrongState("unlock", row.kind, row.status)))
  ELSE Await(row, n, [call EXCEPT !.currentState = row.status], "tx")

\* the row written by the update of unlockScript / unlockVideo
UnlockUpdateData(row) ==
  [row EXCEPT !.status = "APPROVED", !.lockedById = NULL, !.lockedAt = NULL]

UnlockAudit(k, userId) ==
  AuditEntry(userId, <<"EMERGENCY_UNLOCK", k>>, k, [status |-> "LOCKED"],
             [status |-> "APPROVED"])

\* the $transaction of unlockScript / unlockVideo
UnlockTx(row, n, c, fault) ==
  IF fault = "none"
    THEN Done(UnlockUpdateData(row), n, <<>>,
              <<UnlockAudit(row.kind, c.userId)>>, c, Success)
    ELSE Rollback(row, n, c)

unlockScriptLoad ==
  /\ Ready("SCRIPT")
  /\ \E u \in UserIds :
       /\ Suspend(UnlockLoad(item, analytics, u))

unlockScriptTx ==
  /\ Ready("SCRIPT")
  /\ \E c \in Pending, fault \in LockFaults :
       /\ c.op = "unlock"
       /\ c.pc = "tx"
       /\ Resume(c, UnlockTx(item, analytics, c, fault))

unlockScript ==
  /\ Ready("SCRIPT")
  /\ \E u \in UserIds :
       LET o == UnlockLoad(item, analytics, u) IN
       /\ IF o.done
            THEN Through(o)
            ELSE \E fault \in LockFaults :
                   Through(UnlockTx(o.item, o.analytics, o.call, fault))

unlockVideoLoad ==
  /\ Ready("VIDEO")
  /\ \E u \in UserIds :
       /\ Suspend(UnlockLoad(item, analytics, u))

unlockVideoTx ==
  /\ Ready("VIDEO")
  /\ \E c \in Pending, fault \in LockFaults :
       /\ c.op = "unlock"
       /\ c.pc = "tx"
       /\ Resume(c, UnlockTx(item, analytics, c, fault))

unlockVideo ==
  /\ Ready("VIDEO")
  /\ \E u \in UserIds :
       LET o == UnlockLoad(item, analytics, u) IN
       /\ IF o.done
            THEN Through(o)
            ELSE \E fault \in LockFaults :
                   Through(UnlockTx(o.item, o.analytics, o.call, fault))

\* ------------------------------------------------------------------------
\* claimScript / claimVideo
\* ------------------------------------------------------------------------
ErrAlreadyReviewed(k, holder) ==
  [msg |-> "is already being reviewed by. Please select another",
   kind |-> k, reviewer |-> holder]

ErrCannotReview(k, role, status) ==
  [msg |-> "Your role cannot review in status", kind |-> k, role |-> role,
   status |-> status]

\* variants of the checks of a claim, each dropping one of them
ClaimLoadNoHolderReturn(row, n, u, allowedRoles) ==
  LET call == NewCall("claim", NULL, u) IN
  IF row.assignedReviewerId # NULL /\ row.assignedReviewerId # u
    THEN Done(row, n, <<>>, <<>>, call,
              Failure(ErrAlreadyReviewed(row.kind, row.assignedReviewerId)))
  ELSE IF ~Includes(allowedRoles, users[u])
    THEN Done(row, n, <<>>, <<>>, call,
              Failure(ErrCannotReview(row.kind, users[u], row.status)))
  ELSE Await(row, n, call, "update")

ClaimLoadAdminOverride(row, n, u, allowedRoles) ==
  LET call == NewCall("claim", NULL, u) IN
  IF /\ row.assignedReviewerId # NULL
     /\ row.assignedReviewerId # u
     /\ users[u] # "SUPER_ADMIN"
    THEN Done(row, n, <<>>, <<>>, call,
              Failure(ErrAlreadyReviewed(row.kind, row.assignedReviewerId)))
  ELSE IF row.assignedReviewerId = u
    THEN Done(row, n, <<>>, <<>>, call, Success)
  ELSE IF ~Includes(allowedRoles, users[u])
    THEN Done(row, n, <<>>, <<>>, call,
              Failure(ErrCannotReview(row.kind, users[u], row.status)))
  ELSE Await(row, n, call, "update")

ClaimLoadAnyRole(row, n, u, allowedRoles) ==
  LET call == NewCall("claim", NULL, u) IN
  IF row.assignedReviewerId # NULL /\ row.assignedReviewerId # u
    THEN Done(row, n, <<>>, <<>>, call,
              Failure(ErrAlreadyReviewed(row.kind, row.assignedReviewerId)))
  ELSE IF row.assignedReviewerId = u
    THEN Done(row, n, <<>>, <<>>, call, Success)
  ELSE Await(row, n, call, "update")

\* load the row with its assignedReviewer, then the three checks
ClaimLoad(row, n, u, allowedRoles) ==
  LET call == NewCall("claim", NULL, u) IN
  IF row.assignedReviewerId # NULL /\ row.assignedReviewerId # u
    THEN Done(row, n, <<>>, <<>>, call,
              Failure(ErrAlreadyReviewed(row.kind, row.assignedReviewerId)))
  ELSE IF row.assignedReviewerId = u
    THEN Done(row, n, <<>>, <<>>, call, Success)
  ELSE IF ~Includes(allowedRoles, users[u])
    THEN Done(row, n, <<>>, <<>>, call,
              Failure(ErrCannotReview(row.kind, users[u], row.status)))
  ELSE Await(row, n, call, "update")

ClaimScriptLoad(row, n, u) ==
  ClaimLoad(row, n, u, getRolesForScriptStage(row.status))

ClaimVideoLoad(row, n, u) ==
  ClaimLoad(row, n, u, getRolesForVideoStage(row.status))

\* the row written by the update of claimScript / claimVideo
ClaimUpdateData(row, userId, now) ==
  [row EXCEPT !.assignedReviewerId = userId, !.assignedAt = now]

\* prisma.script.update / prisma.video.update: a write of its own
ClaimUpdate(row, n, c, now, fault) ==
  IF fault = "update"
    THEN Done(row, n, <<>>, <<>>, c, Failure(StoreError))
    ELSE Await(ClaimUpdateData(row, c.userId, now), n, c, "audit")

ClaimAudit(k, userId) ==
  AuditEntry(userId, <<"CLAIM", k>>, k, [assignedReviewerId |-> NULL],
             [assignedReviewerId |-> userId])

\* prisma.auditLog.create: a second write, outside any transaction
ClaimLog(row, n, c, fault) ==
  IF fault = "audit"
    THEN Done(row, n, <<>>, <<>>, c, Failure(StoreError))
    ELSE Done(row, n, <<>>, <<ClaimAudit(row.kind, c.userId)>>, c, Success)

ClaimFaults == {"none", "update", "audit"}

\* update, then log
ClaimWrites(row, n, c, now, fault) ==
  LET o == ClaimUpdate(row, n, c, now, fault) IN
  IF o.done THEN o ELSE ClaimLog(o.item, o.analytics, o.call, fault)

claimScriptLoad ==
  /\ Ready("SCRIPT")
  /\ \E u \in UserIds :
       /\ Suspend(ClaimScriptLoad(item, analytics, u))

claimScriptUpdate ==
  /\ Ready("SCRIPT")
  /\ \E c \in Pending, now \in Times, fault \in {"none", "update"} :
       /\ c.op = "claim"
       /\ c.pc = "update"
       /\ Resume(c, ClaimUpdate(item, analytics, c, now, fault))

claimScriptLog ==
  /\ Ready("SCRIPT")
  /\ \E c \in Pending, fault \in {"none", "audit"} :
       /\ c.op = "claim"
       /\ c.pc = "audit"
       /\ Resume(c, ClaimLog(item, analytics, c, fault))

claimScript ==
  /\ Ready("SCRIPT")
  /\ \E u \in UserIds :
       LET o == ClaimScriptLoad(item, analytics, u) IN
       /\ IF o.done
            THEN Through(o)
            ELSE \E now \in Times, fault \in ClaimFaults :
                   Through(ClaimWrites(o.item, o.analytics, o.call, now, fault))

claimVideoLoad ==
  /\ Ready("VIDEO")
  /\ \E u \in UserIds :
       /\ Suspend(ClaimVideoLoad(item, analytics, u))

claimVideoUpdate ==
  /\ Ready("VIDEO")
  /\ \E c \in Pending, now \in Times, fault \in {"none", "update"} :
       /\ c.op = "claim"
       /\ c.pc = "update"
       /\ Resume(c, ClaimUpdate(item, analytics, c, now, fault))

claimVideoLog ==
  /\ Ready("VIDEO")
  /\ \E c \in Pending, fault \in {"none", "audit"} :
       /\ c.op = "claim"
       /\ c.pc = "audit"
       /\ Resume(c, ClaimLog(item, analytics, c, fault))

claimVideo ==
  /\ Ready("VIDEO")
  /\ \E u \in UserIds :
       LET o == ClaimVideoLoad(item, analytics, u) IN
       /\ IF o.done
            THEN Through(o)
            ELSE \E now \in Times, fault \in ClaimFaults :
                   Through(ClaimWrites(o.item, o.analytics, o.call, now, fault))

\* ------------------------------------------------------------------------
\* releaseScript / releaseVideo
\* ------------------------------------------------------------------------
ErrOnlyAssigned(k) ==
  [msg |-> "Only the assigned reviewer or Super Admin can release", kind |-> k]

\* a release without the check of the caller
ReleaseLoadAnyone(row, n, u) ==
  LET call == [NewCall("release", NULL, u) EXCEPT
                 !.previousReviewerId = row.assignedReviewerId] IN
  Await(row, n, call, "update")

ReleaseLoad(row, n, u) ==
  LET call == [NewCall("release", NULL, u) EXCEPT
                 !.previousReviewerId = row.assignedReviewerId] IN
  IF row.assignedReviewerId # u /\ users[u] # "SUPER_ADMIN"
    THEN Done(row, n, <<>>, <<>>, call, Failure(ErrOnlyAssigned(row.kind)))
    ELSE Await(row, n, call, "update")

\* a release that forgets the claim time (a variant the claim pair rules out)
ReleaseUpdateDataIdOnly(row) ==
  [row EXCEPT !.assignedReviewerId = NULL]

\* the row written by the update of releaseScript / releaseVideo
ReleaseUpdateData(row) ==
  [row EXCEPT !.assignedReviewerId = NULL, !.assignedAt = NULL]

ReleaseUpdate(row, n, c, fault) ==
  IF fault = "update"
    THEN Done(row, n, <<>>, <<>>, c, Failure(StoreError))
    ELSE Await(ReleaseUpdateData(row), n, c, "audit")

ReleaseAudit(k, userId, previousReviewerId) ==
  AuditEntry(userId,
             IF users[userId] = "SUPER_ADMIN" /\ previousReviewerId # userId
               THEN <<"FORCE_RELEASE", k>> ELSE <<"RELEASE", k>>,
             k, [assignedReviewerId |-> previousReviewerId],
             [assignedReviewerId |-> NULL])

ReleaseLog(row, n, c, fault) ==
  IF fault = "audit"
    THEN Done(row, n, <<>>, <<>>, c, Failure(StoreError))
    ELSE Done(row, n, <<>>,
              <<ReleaseAudit(row.kind, c.userId, c.previousReviewerId)>>,
              c, Success)

\* update, then log
ReleaseWrites(row, n, c, fault) ==
  LET o == ReleaseUpdate(row, n, c, fault) IN
  IF o.done THEN o ELSE ReleaseLog(o.item, o.analytics, o.call, fault)

releaseScriptLoad ==
  /\ Ready("SCRIPT")
  /\ \E u \in UserIds :
       /\ Suspend(ReleaseLoad(item, analytics, u))

releaseScriptUpdate ==
  /\ Ready("SCRIPT")
  /\ \E c \in Pending, fault \in {"none", "update"} :
       /\ c.op = "release"
       /\ c.pc = "update"
       /\ Resume(c, ReleaseUpdate(item, analytics, c, fault))

releaseScriptLog ==
  /\ Ready("SCRIPT")
  /\ \E c \in Pending, fault \in {"none", "audit"} :
       /\ c.op = "release"
       /\ c.pc = "audit"
       /\ Resume(c, ReleaseLog(item, analytics, c, fault))

releaseScript ==
  /\ Ready("SCRIPT")
  /\ \E u \in UserIds :
       LET o == ReleaseLoad(item, analytics, u) IN
       /\ IF o.done
            THEN Through(o)
            ELSE \E fault \in ClaimFaults :
                   Through(ReleaseWrites(o.item, o.analytics, o.call, fault))

releaseVideoLoad ==
  /\ Ready("VIDEO")
  /\ \E u \in UserIds :
       /\ Suspend(ReleaseLoad(item, analytics, u))

releaseVideoUpdate ==
  /\ Ready("VIDEO")
  /\ \E c \in Pending, fault \in {"none", "update"} :
       /\ c.op = "release"
       /\ c.pc = "update"
       /\ Resume(c, ReleaseUpdate(item, analytics, c, fault))

releaseVideoLog ==
  /\ Ready("VIDEO")
  /\ \E c \in Pending, fault \in {"none", "audit"} :
       /\ c.op = "release"
       /\ c.pc = "audit"
       /\ Resume(c, ReleaseLog(item, analytics, c, fault))

releaseVideo ==
  /\ Ready("VIDEO")
  /\ \E u \in UserIds :
       LET o == ReleaseLoad(item, analytics, u) IN
       /\ IF o.done
            THEN Through(o)
            ELSE \E fault \in ClaimFaults :
                   Through(ReleaseWrites(o.item, o.analytics, o.call, fault))

Next ==
  \/ transitionScript
  \/ transitionScriptLoad
  \/ transitionScriptTx
  \/ transitionVideo
  \/ transitionVideoLoad
  \/ transitionVideoTx
  \/ rejectScript
  \/ rejectVideo
  \/ getScriptQueue
  \/ getVideoQueue
  \/ createTopic
  \/ publishVideo
  \/ publishVideoLoad
  \/ publishVideoTx
  \/ publishVideoTopic
  \/ lockScript
  \/ lockScriptLoad
  \/ lockScriptTx
  \/ lockVideo
  \/ lockVideoLoad
  \/ lockVideoTx
  \/ unlockScript
  \/ unlockScriptLoad
  \/ unlockScriptTx
  \/ unlockVideo
  \/ unlockVideoLoad
  \/ unlockVideoTx
  \/ claimScript
  \/ claimScriptLoad
  \/ claimScriptUpdate
  \/ claimScriptLog
  \/ claimVideo
  \/ claimVideoLoad
  \/ claimVideoUpdate
  \/ claimVideoLog
  \/ releaseScript
  \/ releaseScriptLoad
  \/ releaseScriptUpdate
  \/ releaseScriptLog
  \/ releaseVideo
  \/ releaseVideoLoad
  \/ releaseVideoUpdate
  \/ releaseVideoLog
  \/ sendResponse

Spec == Init /\ [][Next]_vars

\* the operations that write the stage of the item (claim, release, the
\* queue reader and createTopic never do)
NextHistory ==
  \/ transitionScript
  \/ transitionScriptLoad
  \/ transitionScriptTx
  \/ transitionVideo
  \/ transitionVideoLoad
  \/ transitionVideoTx
  \/ rejectScript
  \/ rejectVideo
  \/ publishVideo
  \/ publishVideoLoad
  \/ publishVideoTx
  \/ publishVideoTopic
  \/ lockScript
  \/ lockScriptLoad
  \/ lockScriptTx
  \/ lockVideo
  \/ lockVideoLoad
  \/ lockVideoTx
  \/ unlockScript
  \/ unlockScriptLoad
  \/ unlockScriptTx
  \/ unlockVideo
  \/ unlockVideoLoad
  \/ unlockVideoTx
  \/ sendResponse

\* the stage of the item with the history of its approvals
SpecHistory == InitHistory /\ [][NextHistory]_vars

\* the updates of the content among the transitions of the item
NextEdit ==
  \/ updateScript
  \/ updateScriptLoad
  \/ updateScriptWrite
  \/ updateVideo
  \/ updateVideoLoad
  \/ updateVideoWrite
  \/ transitionScript
  \/ transitionScriptLoad
  \/ transitionScriptTx
  \/ transitionVideo
  \/ transitionVideoLoad
  \/ transitionVideoTx
  \/ sendResponse

SpecEdit == Init /\ [][NextEdit]_vars

\* ------------------------------------------------------------------------
\* Properties
\* ------------------------------------------------------------------------
\* a step has handed a result to the controller
Returned == response # <<>>

TransitionsOf(k) == IF k = "SCRIPT" THEN SCRIPT_TRANSITIONS ELSE VIDEO_TRANSITIONS

StageOrderOf(k) == IF k = "SCRIPT" THEN SCRIPT_STAGE_ORDER ELSE VIDEO_STAGE_ORDER

\* the action a stage-changing request asks of the transition table
TableAction(c) ==
  CASE c.op = "lock" -> "LOCK"
    [] c.op = "unlock" -> "UNLOCK"
    [] OTHER -> c.action

\* C1: claim exclusivity.  A claim is written only over an unclaimed item:
\* no step makes an actor the reviewer of an item that another actor holds
\* at that moment, so of two concurrent claims one alone can succeed.
C1_ClaimExclusive ==
  [][item'.assignedReviewerId \notin {NULL, item.assignedReviewerId}
       => item.assignedReviewerId = NULL]_vars

\* C2: exclusive custody.  While reviewer A holds the item, an APPROVE or
\* REJECT by another actor who is not a super-admin fails and leaves the
\* item as it was.
C2_ExclusiveCustody ==
  [][(/\ response' # <<>>
      /\ response'[1].call.op = "transition"
      /\ response'[1].call.action \in {"APPROVE", "REJECT"}
      /\ item.assignedReviewerId \notin {NULL, response'[1].call.userId}
      /\ users[response'[1].call.userId] # "SUPER_ADMIN")
       => (~response'[1].result.success /\ item' = item)]_vars

\* C3: a transition is all-or-nothing.  A transition that returns failure
\* (one of its writes rejected by the store, or the transition refused)
\* leaves the row with its stage and claim pair, the analytics row, the
\* review rows and the audit log as they were before the call.
C3_AllOrNothing ==
  [][(/\ response' # <<>>
      /\ response'[1].call.op = "transition"
      /\ ~response'[1].result.success)
       => (/\ item' = item
           /\ analytics' = analytics
           /\ reviews' = <<>>
           /\ auditLog' = <<>>)]_vars

\* C3 happens: a REJECT whose transaction the store rejected has returned
C3_Witness ==
  /\ Returned
  /\ response[1].call.op = "transition"
  /\ response[1].call.action = "REJECT"
  /\ response[1].result.error.msg = "store error"
  /\ item.assignedReviewerId # NULL

\* C4: per-item serialization.  Every committed stage change takes the item
\* from the stage stored immediately before the commit to the next stage the
\* table of its kind defines for that stored stage and the requested action,
\* the actor's role being in the allowed set of that entry.
C4_Serialized ==
  [][item'.status # item.status
       => /\ response' # <<>>
          /\ LET c == response'[1].call
                 v == isValidTransition(TransitionsOf(item.kind), item.status,
                                        TableAction(c), users[c.userId])
             IN v.valid /\ v.nextState = item'.status]_vars

\* C5: every successful mutating call appends exactly one audit entry, every
\* failed call appends none, and the entry of a stage change holds the stage
\* stored immediately before it as old and the stage stored after it as new.
C5_AuditAccurate ==
  [][response' # <<>>
       => LET r == response'[1] IN
          /\ (r.result.success /\ r.call.pc # "load") => Len(auditLog') = 1
          /\ ~r.result.success => auditLog' = <<>>
          /\ item'.status # item.status
               => /\ Len(auditLog') = 1
                  /\ auditLog'[1].oldValue.status = item.status
                  /\ auditLog'[1].newValue.status = item'.status]_vars

\* C6: a transition asked with a (stage, action) pair that has no entry in
\* the table of the kind is refused as an invalid transition whatever the
\* role, SUPER_ADMIN included, and the item is left unchanged.
C6_AbsentPairInvalid ==
  [][(/\ response' # <<>>
      /\ response'[1].call.op = "transition"
      /\ response'[1].call.action
           \notin DOMAIN TransitionsOf(item.kind)[response'[1].call.currentState])
       => (/\ ~response'[1].result.success
           /\ response'[1].result.error.msg
                \in {"No transitions defined for state",
                     "Action not allowed from state"}
           /\ item' = item)]_vars

\* C6 happens: SUPER_ADMIN was refused an action absent at the stage
C6_Witness ==
  /\ Returned
  /\ response[1].call.op = "transition"
  /\ users[response[1].call.userId] = "SUPER_ADMIN"
  /\ response[1].result.error.msg = "Action not allowed from state"

\* C7: for a (stage, action) pair of the table, a role outside the allowed
\* roles is refused with an error naming the allowed roles and the role of
\* the actor, and a role inside them is given exactly the next stage of the
\* entry.
C7_RoleChecked ==
  [][(/\ response' # <<>>
      /\ response'[1].call.op = "transition"
      /\ response'[1].call.action
           \in DOMAIN TransitionsOf(item.kind)[response'[1].call.currentState])
       => LET r == response'[1]
              rule == TransitionsOf(item.kind)[r.call.currentState][r.call.action]
          IN IF Includes(rule.requiredRoles, users[r.call.userId])
               THEN /\ r.call.nextState = rule.nextState
                    /\ r.result.success => item'.status = rule.nextState
               ELSE /\ ~r.result.success
                    /\ r.result.error.msg = "Role cannot perform action. Required"
                    /\ r.result.error.required = rule.requiredRoles
                    /\ r.result.error.role = users[r.call.userId]
                    /\ item' = item]_vars

\* C7 happens: a brand reviewer was refused the APPROVE of MEDICAL_REVIEW
C7_Witness ==
  /\ Returned
  /\ response[1].call.op = "transition"
  /\ item.kind = "SCRIPT"
  /\ response[1].call.currentState = "MEDICAL_REVIEW"
  /\ response[1].call.action = "APPROVE"
  /\ response[1].result.error.msg = "Role cannot perform action. Required"
  /\ response[1].result.error.role = "BRAND_REVIEWER"

\* C8: one-step-back rejection.  A successful REJECT moves the item from the
\* stage it is stored in to the stage immediately before it in the order of
\* its kind, and never further back.
C8_OneStepBack ==
  [][(/\ response' # <<>>
      /\ response'[1].call.op = "transition"
      /\ response'[1].call.action = "REJECT"
      /\ response'[1].result.success)
       => (/\ IndexOf(StageOrderOf(item.kind), item.status) > 1
           /\ IndexOf(StageOrderOf(item.kind), item'.status)
                = IndexOf(StageOrderOf(item.kind), item.status) - 1)]_vars

\* C9: APPROVE at DOCTOR_REVIEW yields APPROVED, and the stage of an item
\* becomes LOCKED only from APPROVED and only by a CONTENT_APPROVER or a
\* SUPER_ADMIN.
C9_LockedOnlyFromApproved ==
  [][/\ (/\ response' # <<>>
         /\ response'[1].call.op = "transition"
         /\ response'[1].call.action = "APPROVE"
         /\ response'[1].call.currentState = "DOCTOR_REVIEW"
         /\ response'[1].result.success)
          => item'.status = "APPROVED"
     /\ (item'.status = "LOCKED" /\ item.status # "LOCKED")
          => /\ item.status = "APPROVED"
             /\ response' # <<>>
             /\ users[response'[1].call.userId]
                  \in {"CONTENT_APPROVER", "SUPER_ADMIN"}]_vars

\* C10: every step that changes the stage of the item leaves its claim pair
\* null.
C10_StageChangeClearsClaim ==
  [][item'.status # item.status
       => (item'.assignedReviewerId = NULL /\ item'.assignedAt = NULL)]_vars

\* the stages with a case of their own in getRolesForScriptStage /
\* getRolesForVideoStage
ScriptReviewStages ==
  {"MEDICAL_REVIEW", "BRAND_REVIEW", "DOCTOR_REVIEW", "APPROVED"}

VideoReviewStages ==
  {"BRAND_REVIEW", "MEDICAL_REVIEW", "DOCTOR_REVIEW", "APPROVED", "LOCKED"}

ReviewStagesOf(k) ==
  IF k = "SCRIPT" THEN ScriptReviewStages ELSE VideoReviewStages

getRolesForStage(k, status) ==
  IF k = "SCRIPT" THEN getRolesForScriptStage(status)
                  ELSE getRolesForVideoStage(status)

\* C11: the item has a reviewer only at a stage that has a reviewer-role
\* mapping of its own: never at DRAFT, REJECTED, PUBLISHED, ARCHIVED or, for
\* a script, LOCKED.
C11_ClaimedOnlyAtReviewStage ==
  item.assignedReviewerId # NULL => item.status \in ReviewStagesOf(item.kind)

\* C12: the claim pair is consistent in every reachable state:
\* assignedReviewerId and assignedAt are both null or both non-null.
C12_ClaimPairConsistent ==
  (item.assignedReviewerId = NULL) <=> (item.assignedAt = NULL)

\* the pair is set by a claim, survives a lock, and is null again after a
\* release at the LOCKED stage
C12_Witness ==
  /\ item.status = "LOCKED"
  /\ item.lockedById # NULL
  /\ item.assignedReviewerId = NULL
  /\ item.assignedAt = NULL
  /\ response # <<>>
  /\ response[1].call.op = "release"
  /\ response[1].call.previousReviewerId # NULL
  /\ response[1].result.success

\* C13: lockedById and lockedAt are non-null only while the stage is LOCKED.
C13_LockFieldsOnlyWhileLocked ==
  (item.lockedById # NULL \/ item.lockedAt # NULL) => item.status = "LOCKED"

\* a call of the handler op that ran from its read to its return in this step
RanThrough(op) ==
  /\ response' # <<>>
  /\ calls' = calls
  /\ response'[1].call.op = op

\* the calls this step leaves suspended at an await
SuspendedNow == BagToSet(calls') \ BagToSet(calls)

\* C14: claim idempotence.  A claim by the actor the item is assigned to
\* returns success and changes nothing: the row (assignedReviewerId and
\* assignedAt included) is as it was and no audit entry is written.  Such a
\* call never reaches the update, so the same holds however often it is
\* repeated.
C14_ClaimIdempotent ==
  [][/\ (/\ RanThrough("claim")
         /\ item.assignedReviewerId = response'[1].call.userId)
          => (/\ response'[1].result.success
              /\ item' = item
              /\ analytics' = analytics
              /\ auditLog' = <<>>)
     /\ \A c \in SuspendedNow :
          (c.op = "claim" /\ c.pc = "update")
            => item.assignedReviewerId # c.userId]_vars

C14_Witness ==
  /\ response # <<>>
  /\ response[1].call.op = "claim"
  /\ response[1].call.pc = "load"
  /\ response[1].result.success
  /\ item.assignedReviewerId = response[1].call.userId
  /\ item.assignedAt # NULL
  /\ auditLog = <<>>

\* C15: a claim on an item that the call finds assigned to another actor
\* fails with the already-reviewed error naming that holder, whatever the
\* role of the caller (SUPER_ADMIN included), and writes neither the row nor
\* the audit log.
C15_AlreadyClaimedRefused ==
  [][/\ (/\ RanThrough("claim")
         /\ item.assignedReviewerId # NULL
         /\ item.assignedReviewerId # response'[1].call.userId)
          => (/\ ~response'[1].result.success
              /\ response'[1].result.error
                   = ErrAlreadyReviewed(item.kind, item.assignedReviewerId)
              /\ item' = item
              /\ auditLog' = <<>>)
     /\ \A c \in SuspendedNow :
          (c.op = "claim" /\ c.pc = "update")
            => item.assignedReviewerId \in {NULL, c.userId}]_vars

C15_Witness ==
  /\ response # <<>>
  /\ response[1].call.op = "claim"
  /\ users[response[1].call.userId] = "SUPER_ADMIN"
  /\ ~response[1].result.success
  /\ response[1].result.error.msg
       = "is already being reviewed by. Please select another"
  /\ response[1].result.error.reviewer = item.assignedReviewerId
  /\ item.assignedReviewerId # response[1].call.userId
  /\ auditLog = <<>>

MayRelease(row, u) ==
  row.assignedReviewerId = u \/ users[u] = "SUPER_ADMIN"

\* C17: a release by an actor who is neither the holder the call finds nor a
\* SUPER_ADMIN fails with the only-assigned error and writes neither the row
\* nor the audit log, also when the item is unclaimed.  A release by the
\* holder or a SUPER_ADMIN passes the check, its update leaves both claim
\* fields null, and it fails only on a rejected write.
C17_ReleaseChecked ==
  [][/\ RanThrough("release")
          => LET r == response'[1]
                 u == r.call.userId
             IN /\ ~MayRelease(item, u)
                     => (/\ ~r.result.success
                         /\ r.result.error = ErrOnlyAssigned(item.kind)
                         /\ item' = item
                         /\ auditLog' = <<>>)
                /\ MayRelease(item, u)
                     => (r.result.success \/ r.result.error = StoreError)
                /\ r.result.success
                     => (/\ item'.assignedReviewerId = NULL
                         /\ item'.assignedAt = NULL)
     /\ \A c \in SuspendedNow :
          /\ (c.op = "release" /\ c.pc = "update") => MayRelease(item, c.userId)
          /\ (c.op = "release" /\ c.pc = "audit")
               => (/\ item'.assignedReviewerId = NULL
                   /\ item'.assignedAt = NULL)]_vars

C17_Witness ==
  /\ response # <<>>
  /\ response[1].call.op = "release"
  /\ users[response[1].call.userId] # "SUPER_ADMIN"
  /\ ~response[1].result.success
  /\ response[1].result.error = ErrOnlyAssigned(item.kind)
  /\ item.assignedReviewerId = NULL
  /\ item.assignedAt = NULL
  /\ auditLog = <<>>

\* C18: the audit entry of a successful release has the action FORCE_RELEASE
\* exactly when the claim released was held by someone other than the actor,
\* and RELEASE exactly when the actor was the holder; the release of an item
\* nobody holds is not logged as FORCE_RELEASE.
C18_ForceReleaseOnlyOfOthers ==
  [][(/\ response' # <<>>
      /\ response'[1].call.op = "release"
      /\ response'[1].result.success)
       => LET c == response'[1].call
              logged == auditLog'[1].action
          IN /\ Len(auditLog') = 1
             /\ logged = <<"FORCE_RELEASE", item.kind>>
                  <=> c.previousReviewerId \notin {NULL, c.userId}
             /\ logged = <<"RELEASE", item.kind>>
                  <=> c.previousReviewerId = c.userId]_vars

\* the step writes the update of a release called by u
ReleaseWrittenBy(u) ==
  \/ /\ RanThrough("release")
     /\ response'[1].call.userId = u
  \/ \E c \in SuspendedNow :
       c.op = "release" /\ c.pc = "audit" /\ c.userId = u

\* C19: no expiry.  Once the item is assigned to A, assignedReviewerId stays
\* A in every step except the release of A or of a SUPER_ADMIN and a
\* committed transition; no other step, a claim of another actor included,
\* sets it to null or to another actor.
C19_ClaimKeptUntilReleased ==
  [][(/\ item.assignedReviewerId # NULL
      /\ item'.assignedReviewerId # item.assignedReviewerId)
       => \/ \E u \in UserIds :
               /\ MayRelease(item, u)
               /\ ReleaseWrittenBy(u)
          \/ /\ response' # <<>>
             /\ response'[1].call.op = "transition"
             /\ response'[1].result.success]_vars

\* C20: a lock succeeds only when the item is at APPROVED and the role of
\* the actor is CONTENT_APPROVER or SUPER_ADMIN, and then the stage is LOCKED
\* with lockedById the actor and lockedAt set; a lock at any other stage
\* fails with the error that names the current stage; a failed lock leaves
\* the stage and the lock fields as they were.
C20_LockChecked ==
  [][(response' # <<>> /\ response'[1].call.op = "lock")
       => LET r == response'[1]
              u == r.call.userId
          IN /\ r.result.success
                  => (/\ item.status = "APPROVED"
                      /\ users[u] \in {"CONTENT_APPROVER", "SUPER_ADMIN"}
                      /\ item'.status = "LOCKED"
                      /\ item'.lockedById = u
                      /\ item'.lockedAt # NULL)
             /\ (RanThrough("lock") /\ item.status # "APPROVED")
                  => (/\ ~r.result.success
                      /\ r.result.error
                           = ErrWrongState("lock", item.kind, item.status))
             /\ ~r.result.success
                  => (/\ item'.status = item.status
                      /\ item'.lockedById = item.lockedById
                      /\ item'.lockedAt = item.lockedAt)]_vars

C22_NoGenericLockUnlock ==
  [][(/\ response' # <<>>
      /\ response'[1].call.op = "transition"
      /\ response'[1].call.action \in {"LOCK", "UNLOCK"})
       => ~response'[1].result.success]_vars

\* the row as a PUBLISH by u leaves it
PublishedBy(row, u) ==
  /\ row.kind = "VIDEO"
  /\ row.status = "PUBLISHED"
  /\ row.publishedById = u
  /\ row.publishedAt # NULL
  /\ row.deepLink = <<"practo://hub/video/", row.id>>

\* c is a call of publishVideo, or of transitionVideo with the action PUBLISH
IsPublish(c) ==
  c.action = "PUBLISH" /\ c.op \in {"publish", "transition"}

PublishCommitted ==
  \/ /\ response' # <<>>
     /\ IsPublish(response'[1].call)
     /\ auditLog' # <<>>
  \/ \E c \in SuspendedNow : c.op = "publish" /\ c.pc = "topic"

\* C24: the analytics record of a video is created once.  There is never
\* more than one; the transaction of a publish leaves exactly one; once
\* there is one, every later step, a further publish included (successful
\* or not, after or concurrent with the first), leaves it as it is; and no
\* step but the transaction of a publish creates it.
C24_AnalyticsOnce ==
  [][/\ analytics \in {0, 1}
     /\ analytics' \in {0, 1}
     /\ analytics = 1 => analytics' = 1
     /\ PublishCommitted => analytics' = 1
     /\ analytics' # analytics => PublishCommitted]_vars

\* a further publish call has returned and the record is still the only one
C24_Witness ==
  /\ response # <<>>
  /\ IsPublish(response[1].call)
  /\ response[1].call.currentState = "PUBLISHED"
  /\ ~response[1].result.success
  /\ item.status = "PUBLISHED"
  /\ analytics = 1

\* C25: when a publishVideo call whose transaction has made the video
\* PUBLISHED returns, with success or with failure, the parent topic is
\* COMPLETED.
C25_PublishCompletesTopic ==
  [][(/\ response' # <<>>
      /\ response'[1].call.op = "publish"
      /\ response'[1].call.pc = "topic")
       => topic' = "COMPLETED"]_vars

\* C26: a review row is inserted exactly by the APPROVE and REJECT
\* transitions that succeed: one row for the call, with the decision
\* APPROVED for APPROVE and REJECTED for REJECT and the id and role of the
\* actor.  No other step (SUBMIT, LOCK, UNLOCK, PUBLISH, ARCHIVE, lock,
\* unlock, publish, claim, release, a failed call) inserts one.
C26_ReviewOnDecision ==
  [][IF /\ response' # <<>>
        /\ response'[1].call.op = "transition"
        /\ response'[1].call.action \in {"APPROVE", "REJECT"}
        /\ response'[1].result.success
       THEN /\ Len(reviews') = 1
            /\ reviews'[1].reviewerId = response'[1].call.userId
            /\ reviews'[1].reviewerType = users[response'[1].call.userId]
            /\ reviews'[1].decision
                 = (IF response'[1].call.action = "APPROVE"
                      THEN "APPROVED" ELSE "REJECTED")
            /\ reviews'[1].comments \in Comments
       ELSE reviews' = <<>>]_vars

C26_Witness ==
  /\ response # <<>>
  /\ response[1].call.op = "transition"
  /\ response[1].call.action = "REJECT"
  /\ response[1].result.success
  /\ Len(reviews) = 1
  /\ reviews[1].decision = "REJECTED"
  /\ reviews[1].reviewerId = response[1].call.userId
  /\ reviews[1].reviewerType = "BRAND_REVIEWER"

\* C27: a reject request without comments (absent or empty) is refused with
\* the comments-required error before the engine is called: the row, the
\* review rows and the audit log are as they were.  No REJECT reaches the
\* engine without comments, and no review row with the decision REJECTED has
\* absent or empty comments.
C27_RejectNeedsComments ==
  [][/\ (response' # <<>> /\ response'[1].call.op = "reject")
          => (/\ ~response'[1].result.success
              /\ response'[1].result.error = ErrCommentsRequired
              /\ item' = item
              /\ reviews' = <<>>
              /\ auditLog' = <<>>)
     /\ \A i \in 1..Len(reviews') :
          reviews'[i].decision = "REJECTED"
            => reviews'[i].comments \notin {NULL, ""}]_vars

C27_Witness ==
  /\ response # <<>>
  /\ response[1].call.op = "reject"
  /\ ~response[1].result.success
  /\ response[1].result.error = ErrCommentsRequired
  /\ item.status = "MEDICAL_REVIEW"
  /\ users[response[1].call.userId] = "MEDICAL_REVIEWER"
  /\ reviews = <<>>
  /\ auditLog = <<>>

\* the items of the kind at the stages of the role's queue
QueueItems(u) ==
  {r \in {item} :
     r.status \in QueueStatuses(users[u],
                                IF r.kind = "SCRIPT" THEN "script" ELSE "video")}

\* C28: the queue handed to an actor lists in available exactly the items at
\* the stages of the role that nobody holds, oldest created first, and in
\* mine exactly the items at those stages that the actor holds, most
\* recently claimed first, for scripts and for videos; the lists are
\* disjoint and an item another actor holds is in neither.
C28_QueueLists ==
  [][(response' # <<>> /\ response'[1].call.op = "getQueue")
       => LET u == response'[1].call.userId
              q == response'[1].result.queue
          IN /\ Range(q.available)
                  = {r \in QueueItems(u) : r.assignedReviewerId = NULL}
             /\ Range(q.myReviews)
                  = {r \in QueueItems(u) : r.assignedReviewerId = u}
             /\ Len(q.available) = Cardinality(Range(q.available))
             /\ Len(q.myReviews) = Cardinality(Range(q.myReviews))
             /\ \A i, j \in 1..Len(q.available) :
                  i < j => IndexOf(TimeOrder, q.available[i].createdAt)
                             <= IndexOf(TimeOrder, q.available[j].createdAt)
             /\ \A i, j \in 1..Len(q.myReviews) :
                  i < j => IndexOf(TimeOrder, q.myReviews[i].assignedAt)
                             >= IndexOf(TimeOrder, q.myReviews[j].assignedAt)
             /\ Range(q.available) \cap Range(q.myReviews) = {}
             /\ \A r \in Range(q.available) \cup Range(q.myReviews) :
                  r.assignedReviewerId \in {NULL, u}]_vars

\* the event of a transition: SCRIPT_SUBMITTED ... VIDEO_PUBLISHED
EventTypeOf(k, c) ==
  <<k, CASE c.op \in {"lock"} -> "LOCKED"
         [] c.action = "SUBMIT" -> "SUBMITTED"
         [] c.action = "APPROVE" -> "APPROVED"
         [] c.action = "REJECT" -> "REJECTED"
         [] c.action = "LOCK" -> "LOCKED"
         [] c.action = "PUBLISH" -> "PUBLISHED"
         [] OTHER -> "NONE">>

EventName(eventType) ==
  CASE eventType = "SCRIPT_SUBMITTED" -> <<"SCRIPT", "SUBMITTED">>
    [] eventType = "SCRIPT_APPROVED" -> <<"SCRIPT", "APPROVED">>
    [] eventType = "SCRIPT_REJECTED" -> <<"SCRIPT", "REJECTED">>
    [] eventType = "SCRIPT_LOCKED" -> <<"SCRIPT", "LOCKED">>
    [] eventType = "VIDEO_SUBMITTED" -> <<"VIDEO", "SUBMITTED">>
    [] eventType = "VIDEO_APPROVED" -> <<"VIDEO", "APPROVED">>
    [] eventType = "VIDEO_REJECTED" -> <<"VIDEO", "REJECTED">>
    [] eventType = "VIDEO_LOCKED" -> <<"VIDEO", "LOCKED">>
    [] eventType = "VIDEO_PUBLISHED" -> <<"VIDEO", "PUBLISHED">>
    [] OTHER -> <<"TOPIC", "ASSIGNED">>

\* C29: a successful transition (SUBMIT, APPROVE, REJECT or lock of a script
\* or a video, PUBLISH of a video) hands one event of that transition to
\* NotificationService, with the event type, the id of the item and the
\* actor.
C29_TransitionNotifies ==
  [][(/\ response' # <<>>
      /\ response'[1].result.success
      /\ \/ response'[1].call.op \in {"lock", "publish"}
         \/ /\ response'[1].call.op = "transition"
            /\ response'[1].call.action
                 \in {"SUBMIT", "APPROVE", "REJECT", "LOCK", "PUBLISH"})
       => (/\ Len(notifications') = 1
           /\ EventName(notifications'[1].eventType)
                = EventTypeOf(item.kind, response'[1].call)
           /\ notifications'[1].entityId = item.id
           /\ notifications'[1].actorUserId = response'[1].call.userId)]_vars

\* C30: enqueueEvent returns without raising whatever fails in it (the
\* import, a query of the builder, the add to the queue), and the operation
\* that triggered it has then committed what it wrote and returns its
\* success: createTopic returns the topic it created.  An operation that
\* fails has triggered no event.
C30_NotifyNeverFails ==
  [][/\ \A i \in 1..Len(notifications') : ~notifications'[i].raised
     /\ (response' # <<>> /\ response'[1].call.op = "createTopic")
          => IF notifications' # <<>>
               THEN /\ Len(notifications') = 1
                    /\ response'[1].result.success
                    /\ response'[1].result.topic.status = "ASSIGNED"
                    /\ response'[1].result.topic.createdById
                         = response'[1].call.userId
                    /\ notifications'[1].eventType = "TOPIC_ASSIGNED"
                    /\ notifications'[1].entityId
                         = response'[1].result.topic.id
                    /\ item' = item
                    /\ topic' = topic
               ELSE ~response'[1].result.success]_vars

\* the add to the queue (or the import) failed, and createTopic succeeded
C30_Witness ==
  /\ response # <<>>
  /\ response[1].call.op = "createTopic"
  /\ response[1].result.success
  /\ Len(notifications) = 1
  /\ notifications[1].log = "error"
  /\ notifications[1].queued = <<>>
  /\ ~notifications[1].raised

\* C31: whenever the stage of an item is LOCKED, lockedById and lockedAt are
\* both non-null, whichever operation (lockScript / lockVideo or a generic
\* transition with the action LOCK) moved it there.
C31_LockedHasLockFields ==
  item.status = "LOCKED" => (item.lockedById # NULL /\ item.lockedAt # NULL)

\* C32: a claim or release call that returns failure leaves the claim pair of
\* the item and the audit log as they were before the call: the write of the
\* claim fields and the CLAIM / RELEASE audit entry take effect together or
\* not at all, also when the audit insert fails after the write of the
\* fields.  Stated of the calls that ran from their read to their return.
C32_ClaimWriteAllOrNothing ==
  [][(/\ RanThrough("claim") \/ RanThrough("release")
      /\ ~response'[1].result.success)
       => (/\ item'.assignedReviewerId = item.assignedReviewerId
           /\ item'.assignedAt = item.assignedAt
           /\ auditLog' = <<>>)]_vars

\* the queue the route of the kind of the item hands to the user u
QueueOf(u) ==
  IF item.kind = "SCRIPT"
    THEN getQueueForRole(users[u], "script", u)
    ELSE getQueueForRole(users[u], "video", NULL)

\* C33: every claimed item is visible to its holder: in every reachable
\* state, the queue of the kind of the item, asked for by the holder with
\* the holder's role, lists the item in mine.
C33_HolderSeesItem ==
  item.assignedReviewerId # NULL
    => item \in Range(QueueOf(item.assignedReviewerId).myReviews)

\* the union of the requiredRoles of the actions the table defines at a stage
TableRoles(k, status) ==
  UNION {Range(TransitionsOf(k)[status][a].requiredRoles) :
           a \in DOMAIN TransitionsOf(k)[status]}

\* a claim call that read the item unclaimed is refused for its role exactly
\* when the role is not among the roles of the table at the stage it read
ClaimFollowsTable ==
  LET c == response'[1].call IN
  (response'[1].result.error = ErrCannotReview(item.kind, users[c.userId],
                                               item.status))
    <=> (users[c.userId] \notin TableRoles(item.kind, item.status))

C35_NoReviewStageSkipped ==
  item.status \in {"APPROVED", "LOCKED", "PUBLISHED"}
    => approved = Len(ReviewOrder(item.kind))

C37_ArchivedTerminal ==
  [][item.status = "ARCHIVED" => item'.status = "ARCHIVED"]_vars

\* C38: content is editable only in DRAFT: under every interleaving of
\* updateScript / updateVideo with the transitions of the item (a concurrent
\* SUBMIT among them), the content of the item is never modified while its
\* stored stage is other than DRAFT, and an update of an item that is not in
\* DRAFT fails and changes nothing.
C38_EditOnlyInDraft ==
  [][/\ item'.content # item.content => item.status = "DRAFT"
     /\ (RanThrough("update") /\ item.status # "DRAFT")
          => (~response'[1].result.success /\ item' = item)]_vars

====
